---- MODULE Spec2Model ----
(***************************************************************************)
(* Emission & route optimisation engine of the Carbon 360 application      *)
(* (src/app.py): get_coordinates, calculate_distance, calculate_co2,       *)
(* optimize_route, and the savings computed from them by main.             *)
(*                                                                         *)
(* Numbers.  Python floats are modelled as exact decimals in fixed point:  *)
(*   distance_km   integer count of 0.01 km  (calculate_distance rounds to *)
(*                 2 decimals)                                             *)
(*   weight_tons   integer count of 0.1 t    (the UI's step)               *)
(*   ratio         integer count of 0.1                                    *)
(*   factor        integer count of 0.001 kg/(km t)                        *)
(*   latitude/longitude  integer count of 0.0001 degree                    *)
(*   a segment distance (distance_km * ratio)  integer count of 0.001 km   *)
(*   an unrounded CO2 mass is a record [inf, hi, lo] standing for          *)
(*   hi * 0.01 kg + lo * 0.0000001 kg with 0 <= lo < Co2Unit; two limbs    *)
(*   because the product of a real distance, a weight and a factor does    *)
(*   not fit the 32-bit integers of TLC                                    *)
(*   a rounded CO2 mass (round(x, 2)) is an integer count of 0.01 kg.      *)
(***************************************************************************)
EXTENDS Integers, Sequences, FiniteSets, TLC

(***************************************************************************)
(* Bounds of the model.                                                    *)
(***************************************************************************)
\* distances within MaxNear * 0.01 km of 0 and of each band limit are drawn
MaxNear == 2
\* weights from -0.1 t up to MaxWeight * 0.1 t are drawn
MaxWeight == 3
\* main is run at most MaxRuns times in a session
MaxRuns == 5

(***************************************************************************)
(* Reference data.                                                         *)
(***************************************************************************)
None == "None"

\* EMISSION_FACTORS with the factor of Train mistyped as 0.28
EMISSION_FACTORS_TrainTypo ==
    [Truck |-> 96, Train |-> 280, Ship |-> 16, Plane |-> 602]

\* EMISSION_FACTORS, in 0.001 kg CO2 per km per ton
EMISSION_FACTORS ==
    [Truck |-> 96, Train |-> 28, Ship |-> 16, Plane |-> 602]

\* the default of EMISSION_FACTORS.get(transport_mode, 0.096)
DEFAULT_FACTOR == 96

\* 0.0000001 kg units in 0.01 kg: the 2 decimals kept by round(x, 2)
Co2Unit == 100000

\* 0.001 km units in the 0.01 km unit of distance_km, as a ratio of 1.0
WholeRatio == 10

\* the band limits of optimize_route, 1000 km and 5000 km, in 0.01 km
SHORT_LIMIT == 100000
LONG_LIMIT == 500000

(***************************************************************************)
(* Exact arithmetic on CO2 masses.                                         *)
(***************************************************************************)
Infinity == [inf |-> TRUE, hi |-> 0, lo |-> 0]

Zero == [inf |-> FALSE, hi |-> 0, lo |-> 0]

\* p * f, for p in 0.0001 km t and f in 0.001 kg/(km t)
Times(p, f) ==
    LET ph  == p \div Co2Unit
        pl  == p % Co2Unit
        low == pl * f
    IN  [inf |-> FALSE, hi |-> ph * f + (low \div Co2Unit), lo |-> low % Co2Unit]

\* a + b
Plus(a, b) ==
    [inf |-> FALSE,
     hi  |-> a.hi + b.hi + ((a.lo + b.lo) \div Co2Unit),
     lo  |-> (a.lo + b.lo) % Co2Unit]

\* a < b
Less(a, b) ==
    /\ ~a.inf
    /\ \/ b.inf
       \/ a.hi < b.hi
       \/ a.hi = b.hi /\ a.lo < b.lo

\* round(x, 2): to the nearest 0.01, an exact half to the even neighbour
Round2(x) ==
    IF 2 * x.lo > Co2Unit THEN x.hi + 1
    ELSE IF 2 * x.lo < Co2Unit THEN x.hi
    ELSE IF x.hi % 2 = 0 THEN x.hi ELSE x.hi + 1

(***************************************************************************)
(* calculate_co2                                                           *)
(***************************************************************************)
\* calculate_co2 with an unknown mode given the factor 0
calculate_co2_ZeroDefault(country1, city1, country2, city2, transport_mode, distance_km, weight_tons) ==
    LET emission_factor ==
            IF transport_mode \in DOMAIN EMISSION_FACTORS
            THEN EMISSION_FACTORS[transport_mode]
            ELSE 0
        co2_kg == Times(distance_km * WholeRatio * weight_tons, emission_factor)
    IN  Round2(co2_kg)

\* calculate_co2 dividing by the weight where it should multiply
calculate_co2_PerTon(country1, city1, country2, city2, transport_mode, distance_km, weight_tons) ==
    LET emission_factor ==
            IF transport_mode \in DOMAIN EMISSION_FACTORS
            THEN EMISSION_FACTORS[transport_mode]
            ELSE DEFAULT_FACTOR
    IN  IF weight_tons > 0
        THEN (distance_km * emission_factor) \div (100 * weight_tons)
        ELSE Round2(Times(distance_km * WholeRatio * weight_tons, emission_factor))

calculate_co2(country1, city1, country2, city2, transport_mode, distance_km, weight_tons) ==
    LET emission_factor ==
            IF transport_mode \in DOMAIN EMISSION_FACTORS
            THEN EMISSION_FACTORS[transport_mode]
            ELSE DEFAULT_FACTOR
        co2_kg == Times(distance_km * WholeRatio * weight_tons, emission_factor)
    IN  Round2(co2_kg)

(***************************************************************************)
(* optimize_route                                                          *)
(***************************************************************************)
intercontinental(country1, country2) == country1 # country2

distance_short(distance_km) == distance_km < SHORT_LIMIT

distance_medium(distance_km) == SHORT_LIMIT <= distance_km /\ distance_km < LONG_LIMIT

\* distance_long with the limit itself left out
distance_long_Exclusive(distance_km) == distance_km > LONG_LIMIT

distance_long(distance_km) == distance_km >= LONG_LIMIT

\* the list built at lines 123-155; each entry is (mode1, ratio1, mode2, ratio2)
Combinations(country1, country2, distance_km) ==
    IF intercontinental(country1, country2)
    THEN IF distance_long(distance_km)
         THEN << <<"Ship", 9, "Train", 1>>,
                 <<"Ship", 8, "Truck", 2>>,
                 <<"Plane", 5, "Ship", 5>> >>
         ELSE IF distance_medium(distance_km)
         THEN << <<"Ship", 7, "Train", 3>>,
                 <<"Plane", 4, "Truck", 6>>,
                 <<"Ship", 6, "Plane", 4>> >>
         ELSE << <<"Train", 8, "Truck", 2>>,
                 <<"Ship", 5, "Truck", 5>>,
                 <<"Plane", 3, "Truck", 7>> >>
    ELSE IF distance_short(distance_km)
         THEN << <<"Train", 9, "Truck", 1>>,
                 <<"Truck", 10, None, 0>>,
                 <<"Train", 10, None, 0>> >>
         ELSE << <<"Train", 7, "Truck", 3>>,
                 <<"Truck", 6, "Train", 4>>,
                 <<"Plane", 3, "Truck", 7>> >>

\* the locals before the loop, lines 157-160
NoBest ==
    [best_option |-> <<>>, min_co2 |-> Infinity,
     best_breakdown |-> <<>>, best_distances |-> <<>>]

\* a <= b
LessEq(a, b) == ~Less(b, a)

\* LoopBody comparing with <= : the last of equal totals wins
LoopBody_LastWins(best, combination, distance_km, weight_tons) ==
    LET mode1  == combination[1]
        ratio1 == combination[2]
        mode2  == combination[3]
        ratio2 == combination[4]
        dist1  == distance_km * ratio1
        dist2  == IF mode2 # None THEN distance_km * ratio2 ELSE 0
        co2_1  == Times(dist1 * weight_tons, EMISSION_FACTORS[mode1])
        co2_2  == IF mode2 # None
                  THEN Times(dist2 * weight_tons, EMISSION_FACTORS[mode2])
                  ELSE Zero
        total_co2 == Plus(co2_1, co2_2)
    IN  IF LessEq(total_co2, best.min_co2)
        THEN [best_option |-> combination, min_co2 |-> total_co2,
              best_breakdown |-> <<co2_1, co2_2>>,
              best_distances |-> <<dist1, dist2>>]
        ELSE best

\* LoopBody with ratio1 copied into the second segment's distance
LoopBody_CopiedRatio(best, combination, distance_km, weight_tons) ==
    LET mode1  == combination[1]
        ratio1 == combination[2]
        mode2  == combination[3]
        ratio2 == combination[4]
        dist1  == distance_km * ratio1
        dist2  == IF mode2 # None THEN distance_km * ratio1 ELSE 0
        co2_1  == Times(dist1 * weight_tons, EMISSION_FACTORS[mode1])
        co2_2  == IF mode2 # None
                  THEN Times(dist2 * weight_tons, EMISSION_FACTORS[mode2])
                  ELSE Zero
        total_co2 == Plus(co2_1, co2_2)
    IN  IF Less(total_co2, best.min_co2)
        THEN [best_option |-> combination, min_co2 |-> total_co2,
              best_breakdown |-> <<co2_1, co2_2>>,
              best_distances |-> <<dist1, dist2>>]
        ELSE best

\* one iteration of the loop, lines 162-172
LoopBody(best, combination, distance_km, weight_tons) ==
    LET mode1  == combination[1]
        ratio1 == combination[2]
        mode2  == combination[3]
        ratio2 == combination[4]
        dist1  == distance_km * ratio1
        dist2  == IF mode2 # None THEN distance_km * ratio2 ELSE 0
        co2_1  == Times(dist1 * weight_tons, EMISSION_FACTORS[mode1])
        co2_2  == IF mode2 # None
                  THEN Times(dist2 * weight_tons, EMISSION_FACTORS[mode2])
                  ELSE Zero
        total_co2 == Plus(co2_1, co2_2)
    IN  IF Less(total_co2, best.min_co2)
        THEN [best_option |-> combination, min_co2 |-> total_co2,
              best_breakdown |-> <<co2_1, co2_2>>,
              best_distances |-> <<dist1, dist2>>]
        ELSE best

\* the loop over combinations from entry i on
RECURSIVE Loop(_, _, _, _, _)
Loop(best, combinations, i, distance_km, weight_tons) ==
    IF i > Len(combinations) THEN best
    ELSE Loop(LoopBody(best, combinations[i], distance_km, weight_tons),
              combinations, i + 1, distance_km, weight_tons)

\* the returned tuple, with the list of candidates the call enumerated
optimize_route(country1, city1, country2, city2, distance_km, weight_tons) ==
    LET combinations == Combinations(country1, country2, distance_km)
        best == Loop(NoBest, combinations, 1, distance_km, weight_tons)
    IN  [combinations |-> combinations,
         best_option  |-> best.best_option,
         min_co2      |-> Round2(best.min_co2),
         breakdown    |-> best.best_breakdown,
         distances    |-> best.best_distances]

(***************************************************************************)
(* get_coordinates and calculate_distance                                  *)
(***************************************************************************)
\* LOCATIONS: country -> city -> (latitude, longitude), in 0.0001 degree
LOCATIONS ==
    ("United Kingdom" :> ("London" :> <<515074, -1278>>)) @@
    ("France" :> ("Paris" :> <<488566, 23522>>)) @@
    ("USA" :> ("New York" :> <<407128, -740060>>)) @@
    ("China" :> ("Shanghai" :> <<312304, 1214737>>)) @@
    ("Japan" :> ("Tokyo" :> <<356762, 1396503>>)) @@
    ("Australia" :> ("Sydney" :> <<-338688, 1512093>>))

\* (0, 0), the value get_coordinates gives for a location it does not know
SENTINEL == <<0, 0>>

\* get_coordinates looking the city up first and the country inside it
get_coordinates_Swapped(country, city) ==
    IF city \in DOMAIN LOCATIONS
    THEN IF country \in DOMAIN LOCATIONS[city]
         THEN LOCATIONS[city][country]
         ELSE SENTINEL
    ELSE SENTINEL

\* LOCATIONS.get(country, {}).get(city, (0, 0))
get_coordinates(country, city) ==
    IF country \in DOMAIN LOCATIONS
    THEN IF city \in DOMAIN LOCATIONS[country]
         THEN LOCATIONS[country][city]
         ELSE SENTINEL
    ELSE SENTINEL

\* a default distance of 0.0 km
DEFAULT_DISTANCE_Zero == 0

\* 500.0 km, the default distance, in 0.01 km
DEFAULT_DISTANCE == 50000

\* the coordinates get_coordinates can return
Points ==
    << <<515074, -1278>>, <<488566, 23522>>, <<407128, -740060>>,
       <<312304, 1214737>>, <<356762, 1396503>>, <<-338688, 1512093>>,
       <<0, 0>> >>

\* round(R * c, 2) of lines 103-108, in 0.01 km, evaluated at each pair of
\* Points (row: first point, column: second point)
GreatCircle ==
    << <<      0,   34356,  557022,  919674,  955856, 1699393,  572737>>,
       <<  34356,       0,  583724,  926266,  971172, 1696050,  543729>>,
       << 557022,  583724,       0, 1185843, 1085173, 1598876,  866707>>,
       << 919674,  926266, 1185843,       0,  175426,  788142, 1295599>>,
       << 955856,  971172, 1085173,  175426,       0,  782582, 1426063>>,
       <<1699393, 1696050, 1598876,  788142,  782582,       0, 1519945>>,
       << 572737,  543729,  866707, 1295599, 1426063, 1519945,       0>> >>

PointIndex(lat, lon) == CHOOSE i \in DOMAIN Points : Points[i] = <<lat, lon>>

\* the haversine formula, lines 103-108
haversine(lat1, lon1, lat2, lon2) ==
    GreatCircle[PointIndex(lat1, lon1)][PointIndex(lat2, lon2)]

\* the condition of line 101 asking for both endpoints to be (0, 0)
NotFound_Both(lat1, lon1, lat2, lon2) ==
    (lat1 = 0 /\ lon1 = 0) /\ (lat2 = 0 /\ lon2 = 0)

\* the condition of line 101
NotFound(lat1, lon1, lat2, lon2) ==
    (lat1 = 0 /\ lon1 = 0) \/ (lat2 = 0 /\ lon2 = 0)

\* the return statement a call leaves by: line 102 or line 108
ReturnLine(country1, city1, country2, city2) ==
    LET c1 == get_coordinates(country1, city1)
        c2 == get_coordinates(country2, city2)
    IN  IF NotFound(c1[1], c1[2], c2[1], c2[2]) THEN "default" ELSE "haversine"

calculate_distance(country1, city1, country2, city2) ==
    LET c1 == get_coordinates(country1, city1)
        c2 == get_coordinates(country2, city2)
        lat1 == c1[1]
        lon1 == c1[2]
        lat2 == c2[1]
        lon2 == c2[2]
    IN  IF NotFound(lat1, lon1, lat2, lon2)
        THEN DEFAULT_DISTANCE
        ELSE haversine(lat1, lon1, lat2, lon2)

(***************************************************************************)
(* The carbon-price conversion of main, lines 598-600.  Money is counted   *)
(* exactly: a rate is an integer count of 0.01, the price per ton an       *)
(* integer count of 0.01 EUR, the price per kg an integer count of         *)
(* 0.0000001 currency units, and an amount is a record [hi, lo] standing   *)
(* for hi * 0.0001 + lo * 0.000000001 currency units, 0 <= lo < Co2Unit.   *)
(***************************************************************************)
\* CARBON_PRICE_EUR_PER_TON = 65.89, in 0.01 EUR
CARBON_PRICE_EUR_PER_TON == 6589

\* EXCHANGE_RATES with the rate of USD mistyped as 1.60
EXCHANGE_RATES_Typo == [EUR |-> 100, USD |-> 160, AUD |-> 162, SAR |-> 398]

\* EXCHANGE_RATES, in 0.01
EXCHANGE_RATES == [EUR |-> 100, USD |-> 106, AUD |-> 162, SAR |-> 398]

\* the base the two factors of a product are split in
Digits == 10000

\* s * p for a CO2 mass s in 0.01 kg and a price p per kg, p >= 0
TimesPrice(s, p) ==
    LET s1  == s \div Digits
        s0  == s % Digits
        p1  == p \div Digits
        p0  == p % Digits
        mid == s1 * p0 + s0 * p1
        low == (mid % 10) * Digits + s0 * p0
    IN  [hi |-> s1 * p1 * 1000 + (mid \div 10) + (low \div Co2Unit),
         lo |-> low % Co2Unit]

\* (CARBON_PRICE_EUR_PER_TON / 1000) * EXCHANGE_RATES[currency], line 599;
\* the subscript raises KeyError for a key the dict does not hold
carbon_price_per_kg(currency) ==
    IF currency \in DOMAIN EXCHANGE_RATES
    THEN [raised |-> "", value |-> CARBON_PRICE_EUR_PER_TON * EXCHANGE_RATES[currency]]
    ELSE [raised |-> "KeyError", value |-> 0]

\* lines 599-600: the outcome of converting total_savings into currency
ConvertSavings(total_savings, currency) ==
    LET per_kg == carbon_price_per_kg(currency)
    IN  IF per_kg.raised # ""
        THEN [raised |-> per_kg.raised, carbon_price_per_kg |-> 0,
              total_cost_savings |-> [hi |-> 0, lo |-> 0]]
        ELSE [raised |-> "", carbon_price_per_kg |-> per_kg.value,
              total_cost_savings |-> TimesPrice(total_savings, per_kg.value)]

(***************************************************************************)
(* State: the arguments each operation is called with, and what the calls  *)
(* made so far returned.                                                   *)
(***************************************************************************)
VARIABLES
    shipment,   \* the shipment optimize_route and main's analysis work on
    route,      \* <<>> or the call of optimize_route and its result
    kpi,        \* <<>> or the route analysis of main (lines 392-407)
    co2_args,   \* the argument tuples of two calls of calculate_co2
    co2_calls,  \* the calls of calculate_co2 made so far, with their results
    dist_args,  \* the arguments of a call of calculate_distance
    dist,       \* <<>> or the call of calculate_distance and its result
    price_args, \* the savings and the currency given to the price conversion
    price,      \* <<>> or the outcome of the price conversion
    session,    \* st.session_state: page, source_country, dest_country, weight_tons
    emissions,  \* the rows of the emissions table of emissions.db, oldest first
    suppliers,  \* the rows of the suppliers table of emissions.db
    view        \* what the last run of main computed for the page it showed

vars == <<shipment, route, kpi, co2_args, co2_calls, dist_args, dist,
          price_args, price, session, emissions, suppliers, view>>

\* the variables of the application, untouched by direct calls of the engine
appVars == <<session, emissions, suppliers, view>>

\* the application not started: no session, an empty database
AppIdle ==
    /\ session = <<>>
    /\ emissions = <<>>
    /\ suppliers = {}
    /\ view = <<>>

\* the inputs drawn
Countries == DOMAIN LOCATIONS \cup {"Atlantis"}

Cities == UNION {DOMAIN LOCATIONS[c] : c \in DOMAIN LOCATIONS} \cup {"El Dorado"}

\* the first city listed for a country, as the pages pair them
CityOf(country) ==
    IF country \in DOMAIN LOCATIONS
    THEN CHOOSE city \in DOMAIN LOCATIONS[country] : TRUE
    ELSE "El Dorado"

Modes == DOMAIN EMISSION_FACTORS

\* distances around 0 and around each band limit, the default distance and
\* three distances between cities of LOCATIONS
Distances ==
    (-MaxNear .. MaxNear)
    \cup {SHORT_LIMIT + k : k \in -MaxNear .. MaxNear}
    \cup {LONG_LIMIT + k : k \in -MaxNear .. MaxNear}
    \cup {DEFAULT_DISTANCE, 34356, 175426, 1185843}

\* weights from -0.1 t on, and the UI's initial 1.0 t
Weights == (-1 .. MaxWeight) \cup {10}

(***************************************************************************)
(* optimize_route called on a shipment, and the analysis of a stored       *)
(* shipment by main (lines 392-407, and the same steps at lines 537-552).  *)
(***************************************************************************)
InitRoute ==
    /\ shipment \in [source_country : Countries, dest_country : Countries,
                     transport_mode : Modes,
                     distance_km : Distances, weight_tons : Weights]
    /\ route = <<>>
    /\ kpi = <<>>
    /\ co2_args = <<>>
    /\ co2_calls = <<>>
    /\ dist_args = <<>>
    /\ dist = <<>>
    /\ price_args = <<>>
    /\ price = <<>>
    /\ AppIdle

RouteCall(country1, city1, country2, city2, distance_km, weight_tons) ==
    [country1 |-> country1, city1 |-> city1,
     country2 |-> country2, city2 |-> city2,
     distance_km |-> distance_km, weight_tons |-> weight_tons,
     ret |-> optimize_route(country1, city1, country2, city2,
                            distance_km, weight_tons)]

\* a direct call, whatever the distance and the weight
OptimizeRoute ==
    /\ route = <<>>
    /\ route' = << RouteCall(shipment.source_country, CityOf(shipment.source_country),
                             shipment.dest_country, CityOf(shipment.dest_country),
                             shipment.distance_km, shipment.weight_tons) >>
    /\ UNCHANGED <<shipment, kpi, co2_args, co2_calls, dist_args, dist, price_args, price, appVars>>

\* the analysis of a row Calculate stored: its weight is at least 0.1 t (line
\* 281), its distance is not negative and its CO2 is calculate_co2 of its
\* mode, distance and weight (line 288)
AnalyzeRoute ==
    /\ kpi = <<>>
    /\ shipment.weight_tons >= 1
    /\ shipment.distance_km >= 0
    /\ LET source_country == shipment.source_country
           source_city == CityOf(source_country)
           dest_country == shipment.dest_country
           dest_city   == CityOf(dest_country)
           distance_km == shipment.distance_km
           weight_tons == shipment.weight_tons
           current_mode == shipment.transport_mode
           current_co2 == calculate_co2(source_country, source_city,
                                        dest_country, dest_city,
                                        current_mode, distance_km, weight_tons)
           call == RouteCall(source_country, source_city,
                             dest_country, dest_city,
                             distance_km, weight_tons)
       IN  /\ route' = <<call>>
           /\ kpi' = << [current_mode |-> current_mode,
                         current_co2 |-> current_co2,
                         min_co2 |-> call.ret.min_co2,
                         savings |-> current_co2 - call.ret.min_co2] >>
    /\ UNCHANGED <<shipment, co2_args, co2_calls, dist_args, dist, price_args, price, appVars>>

NextRoute == OptimizeRoute \/ AnalyzeRoute

SpecRoute == InitRoute /\ [][NextRoute]_vars

(***************************************************************************)
(* Two calls of calculate_co2, one after the other.                        *)
(***************************************************************************)
Co2Modes == Modes \cup {"Bicycle"}

Co2Distances == (-1 .. MaxNear) \cup {DEFAULT_DISTANCE, 34356}

Co2Endpoints == {<<"United Kingdom", "France">>, <<"USA", "Atlantis">>}

Co2Args ==
    [ends : Co2Endpoints, transport_mode : Co2Modes,
     distance_km : Co2Distances, weight_tons : Weights]

InitCo2 ==
    /\ co2_args \in Co2Args \X Co2Args
    /\ co2_calls = <<>>
    /\ shipment = <<>>
    /\ route = <<>>
    /\ kpi = <<>>
    /\ dist_args = <<>>
    /\ dist = <<>>
    /\ price_args = <<>>
    /\ price = <<>>
    /\ AppIdle

CalculateCo2 ==
    /\ Len(co2_calls) < Len(co2_args)
    /\ LET a == co2_args[Len(co2_calls) + 1]
           country1 == a.ends[1]
           country2 == a.ends[2]
       IN  co2_calls' = Append(co2_calls,
               [country1 |-> country1, city1 |-> CityOf(country1),
                country2 |-> country2, city2 |-> CityOf(country2),
                transport_mode |-> a.transport_mode,
                distance_km |-> a.distance_km,
                weight_tons |-> a.weight_tons,
                ret |-> calculate_co2(country1, CityOf(country1),
                                      country2, CityOf(country2),
                                      a.transport_mode, a.distance_km,
                                      a.weight_tons)])
    /\ UNCHANGED <<shipment, route, kpi, co2_args, dist_args, dist, price_args, price, appVars>>

NextCo2 == CalculateCo2

SpecCo2 == InitCo2 /\ [][NextCo2]_vars

(***************************************************************************)
(* A call of calculate_distance.                                           *)
(***************************************************************************)
InitDist ==
    /\ dist_args \in [country1 : Countries, city1 : Cities,
                      country2 : Countries, city2 : Cities]
    /\ dist = <<>>
    /\ shipment = <<>>
    /\ route = <<>>
    /\ kpi = <<>>
    /\ co2_args = <<>>
    /\ co2_calls = <<>>
    /\ price_args = <<>>
    /\ price = <<>>
    /\ AppIdle

CalculateDistance ==
    /\ dist = <<>>
    /\ LET a == dist_args
       IN  dist' = << [country1 |-> a.country1, city1 |-> a.city1,
                       country2 |-> a.country2, city2 |-> a.city2,
                       line |-> ReturnLine(a.country1, a.city1,
                                           a.country2, a.city2),
                       ret |-> calculate_distance(a.country1, a.city1,
                                                  a.country2, a.city2)] >>
    /\ UNCHANGED <<shipment, route, kpi, co2_args, co2_calls, dist_args, price_args, price, appVars>>

NextDist == CalculateDistance

SpecDist == InitDist /\ [][NextDist]_vars

(***************************************************************************)
(* Properties of optimize_route, under SpecRoute.                          *)
(***************************************************************************)
\* the total of a candidate as the claims state it: the sum over its
\* segments of distance x ratio x weight x factor(mode)
CandidateTotal(c, distance_km, weight_tons) ==
    Plus(Times(distance_km * c[2] * weight_tons, EMISSION_FACTORS[c[1]]),
         IF c[3] = None THEN Zero
         ELSE Times(distance_km * c[4] * weight_tons, EMISSION_FACTORS[c[3]]))

\* C1: the strategy returned by optimize_route is a member of the table
\* selected for the inputs, its total is the lowest total of the table, no
\* earlier candidate of the table has the same total, and the total returned
\* is that total rounded to 2 decimals.
C1_LowestFirst ==
    route # <<>> =>
        LET r == route[1]
            T == r.ret.combinations
            total(i) == CandidateTotal(T[i], r.distance_km, r.weight_tons)
        IN  \E i \in DOMAIN T :
                /\ r.ret.best_option = T[i]
                /\ \A j \in DOMAIN T : ~Less(total(j), total(i))
                /\ \A j \in 1 .. (i - 1) : total(j) # total(i)
                /\ r.ret.min_co2 = Round2(total(i))

\* a call whose winner is the third candidate, strictly below the first two
C1_Witness ==
    /\ route # <<>>
    /\ route[1].distance_km > 0
    /\ route[1].weight_tons > 0
    /\ route[1].ret.best_option = route[1].ret.combinations[3]
    /\ route[1].ret.min_co2 > 0

\* C2: the candidate list of a call is chosen by scope (intercontinental iff
\* the countries differ) and distance: intercontinental long (>= 5000 km),
\* medium (1000 to < 5000 km), short (< 1000 km); domestic < 1000 km and
\* domestic >= 1000 km; each list with the candidates and order of the claim.
C2_TableByScopeAndBand ==
    route # <<>> =>
        LET r == route[1]
            d == r.distance_km
            T == r.ret.combinations
        IN  IF r.country1 # r.country2
            THEN /\ d >= 500000 =>
                      T = << <<"Ship", 9, "Train", 1>>, <<"Ship", 8, "Truck", 2>>,
                             <<"Plane", 5, "Ship", 5>> >>
                 /\ (d >= 100000 /\ d < 500000) =>
                      T = << <<"Ship", 7, "Train", 3>>, <<"Plane", 4, "Truck", 6>>,
                             <<"Ship", 6, "Plane", 4>> >>
                 /\ d < 100000 =>
                      T = << <<"Train", 8, "Truck", 2>>, <<"Ship", 5, "Truck", 5>>,
                             <<"Plane", 3, "Truck", 7>> >>
            ELSE /\ d < 100000 =>
                      T = << <<"Train", 9, "Truck", 1>>, <<"Truck", 10, None, 0>>,
                             <<"Train", 10, None, 0>> >>
                 /\ d >= 100000 =>
                      T = << <<"Train", 7, "Truck", 3>>, <<"Truck", 6, "Train", 4>>,
                             <<"Plane", 3, "Truck", 7>> >>

\* an intercontinental call at exactly 5000 km, which got the long list
C2_Witness ==
    /\ route # <<>>
    /\ route[1].country1 # route[1].country2
    /\ route[1].distance_km = 500000
    /\ route[1].ret.combinations[1] = <<"Ship", 9, "Train", 1>>

\* C3 (as claimed): a call with weight <= 0 or distance < 0 is rejected: it
\* returns no strategy.
C3_InvalidInputRejected ==
    route # <<>> =>
        ((route[1].weight_tons <= 0 \/ route[1].distance_km < 0)
            => route[1].ret.best_option = <<>>)

\* C4 (as claimed): the savings of an analysed shipment, its stored CO2 minus
\* the optimized total, are never negative.
C4_SavingsNonNegative ==
    kpi # <<>> => kpi[1].savings >= 0

\* C5 (as claimed): for valid inputs the total returned is at most the CO2 of
\* carrying the whole distance by any one mode that appears in the selected
\* table.
C5_NoWorseThanSingleMode ==
    (route # <<>> /\ route[1].distance_km >= 0 /\ route[1].weight_tons > 0) =>
        LET r == route[1]
            T == r.ret.combinations
            modes == {T[i][1] : i \in DOMAIN T}
                     \cup ({T[i][3] : i \in DOMAIN T} \ {None})
        IN  \A m \in modes :
                r.ret.min_co2 <= calculate_co2(r.country1, r.city1,
                                               r.country2, r.city2, m,
                                               r.distance_km, r.weight_tons)

\* C6: in every result the two ratios of the winner sum to 1, the two segment
\* distances sum to the input distance (the second is 0 for a single mode),
\* each segment CO2 is its distance x weight x factor(mode), and the total
\* returned is the sum of the segment CO2 rounded to 2 decimals.
C6_SegmentConservation ==
    route # <<>> =>
        LET r == route[1]
            o == r.ret.best_option
            dist1 == r.ret.distances[1]
            dist2 == r.ret.distances[2]
            co2_1 == r.ret.breakdown[1]
            co2_2 == r.ret.breakdown[2]
        IN  /\ o[2] + o[4] = WholeRatio
            /\ dist1 + dist2 = r.distance_km * WholeRatio
            /\ o[3] = None => dist2 = 0
            /\ co2_1 = Times(dist1 * r.weight_tons, EMISSION_FACTORS[o[1]])
            /\ co2_2 = IF o[3] = None THEN Zero
                       ELSE Times(dist2 * r.weight_tons, EMISSION_FACTORS[o[3]])
            /\ r.ret.min_co2 = Round2(Plus(co2_1, co2_2))

\* a result with two segments of different lengths and a total that the
\* rounding changed
C6_Witness ==
    /\ route # <<>>
    /\ route[1].ret.best_option[3] # None
    /\ route[1].ret.distances[1] > route[1].ret.distances[2]
    /\ route[1].ret.distances[2] > 0
    /\ Plus(route[1].ret.breakdown[1], route[1].ret.breakdown[2]).lo # 0

(***************************************************************************)
(* Properties of calculate_co2, under SpecCo2.                             *)
(***************************************************************************)
\* the factor the claims give a mode: the four of the table, Truck's otherwise
ClaimedFactor(mode) ==
    CASE mode = "Truck" -> 96
      [] mode = "Train" -> 28
      [] mode = "Ship" -> 16
      [] mode = "Plane" -> 602
      [] OTHER -> 96

\* C7: every call of calculate_co2 returns distance x weight x factor(mode)
\* to the nearest 0.01, with the factor of Truck for a mode outside the
\* table, and two calls with the same mode, distance and weight return the
\* same value whatever their origins and destinations.
C7_Co2Formula ==
    /\ \A i \in DOMAIN co2_calls :
        LET c == co2_calls[i]
            x == Times(c.distance_km * WholeRatio * c.weight_tons,
                       ClaimedFactor(c.transport_mode))
        IN  /\ c.ret \in {x.hi, x.hi + 1}
            /\ c.ret = x.hi => 2 * x.lo <= Co2Unit
            /\ c.ret = x.hi + 1 => 2 * x.lo >= Co2Unit
    /\ \A i, j \in DOMAIN co2_calls :
        (/\ co2_calls[i].transport_mode = co2_calls[j].transport_mode
         /\ co2_calls[i].distance_km = co2_calls[j].distance_km
         /\ co2_calls[i].weight_tons = co2_calls[j].weight_tons)
            => co2_calls[i].ret = co2_calls[j].ret

\* a call with a mode outside the table that returned Truck's positive CO2,
\* after a call with the same mode, distance and weight between other places
C7_Witness ==
    /\ Len(co2_calls) = 2
    /\ co2_calls[2].transport_mode \notin DOMAIN EMISSION_FACTORS
    /\ co2_calls[2].ret = 1440
    /\ co2_calls[1].transport_mode = co2_calls[2].transport_mode
    /\ co2_calls[1].distance_km = co2_calls[2].distance_km
    /\ co2_calls[1].weight_tons = co2_calls[2].weight_tons
    /\ co2_calls[1].country1 # co2_calls[2].country1

\* C8 (as claimed): of two calls with the same mode, the same weight > 0 and
\* distances d1 < d2, the second value returned is greater; of two calls with
\* the same mode, the same distance > 0 and weights w1 < w2, likewise.
C8_StrictlyIncreasing ==
    Len(co2_calls) = 2 =>
        LET a == co2_calls[1]
            b == co2_calls[2]
        IN  /\ (/\ a.transport_mode = b.transport_mode
                /\ a.weight_tons = b.weight_tons /\ a.weight_tons > 0
                /\ a.distance_km < b.distance_km) => a.ret < b.ret
            /\ (/\ a.transport_mode = b.transport_mode
                /\ a.distance_km = b.distance_km /\ a.distance_km > 0
                /\ a.weight_tons < b.weight_tons) => a.ret < b.ret

\* C8 (amended): under the same conditions the second value returned is
\* greater than or equal to the first.
C8_NonDecreasing ==
    Len(co2_calls) = 2 =>
        LET a == co2_calls[1]
            b == co2_calls[2]
        IN  /\ (/\ a.transport_mode = b.transport_mode
                /\ a.weight_tons = b.weight_tons /\ a.weight_tons > 0
                /\ a.distance_km < b.distance_km) => a.ret <= b.ret
            /\ (/\ a.transport_mode = b.transport_mode
                /\ a.distance_km = b.distance_km /\ a.distance_km > 0
                /\ a.weight_tons < b.weight_tons) => a.ret <= b.ret

\* two calls with the same mode and weight and positive distances d1 < d2
\* whose values are equal after rounding
C8_Witness ==
    /\ Len(co2_calls) = 2
    /\ co2_calls[1].transport_mode = co2_calls[2].transport_mode
    /\ co2_calls[1].weight_tons = co2_calls[2].weight_tons
    /\ co2_calls[1].weight_tons > 0
    /\ 0 < co2_calls[1].distance_km
    /\ co2_calls[1].distance_km < co2_calls[2].distance_km
    /\ co2_calls[1].ret = co2_calls[2].ret

(***************************************************************************)
(* Properties of calculate_distance, under SpecDist.                       *)
(***************************************************************************)
\* a (country, city) pair that LOCATIONS holds
Resolves(country, city) ==
    /\ country \in DOMAIN LOCATIONS
    /\ city \in DOMAIN LOCATIONS[country]

\* C9: a call with an endpoint that does not resolve (unknown country, or
\* unknown city of a known country; origin, destination or both) returns
\* exactly 500.0 by the default branch; a call with both endpoints resolved
\* returns the rounded haversine distance of their coordinates.
C9_FallbackDeterminism ==
    dist # <<>> =>
        LET c == dist[1]
        IN  IF Resolves(c.country1, c.city1) /\ Resolves(c.country2, c.city2)
            THEN LET p1 == LOCATIONS[c.country1][c.city1]
                     p2 == LOCATIONS[c.country2][c.city2]
                 IN  /\ c.line = "haversine"
                     /\ c.ret = haversine(p1[1], p1[2], p2[1], p2[2])
            ELSE /\ c.line = "default"
                 /\ c.ret = 50000

\* a call from a resolved origin to an unknown city of a known country
C9_Witness ==
    /\ dist # <<>>
    /\ Resolves(dist[1].country1, dist[1].city1)
    /\ dist[1].country2 \in DOMAIN LOCATIONS
    /\ dist[1].city2 \notin DOMAIN LOCATIONS[dist[1].country2]
    /\ dist[1].ret = 50000

\* C10 (as claimed): a call with the same country and the same city as origin
\* and destination returns 0.0.
C10_ZeroForEveryLocation ==
    (dist # <<>> /\ dist[1].country1 = dist[1].country2
                 /\ dist[1].city1 = dist[1].city2)
        => dist[1].ret = 0

\* C10 (amended): such a call returns 0.0 when the location resolves in
\* LOCATIONS and the default 500.0 when it does not.
C10_ZeroForResolvedLocation ==
    (dist # <<>> /\ dist[1].country1 = dist[1].country2
                 /\ dist[1].city1 = dist[1].city2)
        => IF Resolves(dist[1].country1, dist[1].city1)
           THEN dist[1].ret = 0
           ELSE dist[1].ret = 50000

\* a call from a resolved location to itself that returned 0.0
C10_Witness ==
    /\ dist # <<>>
    /\ dist[1].country1 = dist[1].country2
    /\ dist[1].city1 = dist[1].city2
    /\ Resolves(dist[1].country1, dist[1].city1)
    /\ dist[1].ret = 0

(***************************************************************************)
(* The price conversion applied to a savings value and a currency key.     *)
(***************************************************************************)
\* the keys offered by the selectbox of line 598, and one it does not offer
PriceCurrencies == DOMAIN EXCHANGE_RATES \cup {"GBP"}

\* savings in 0.01 kg: around 0, the 100 kg of the spec's scenario, and the
\* savings of some shipments between cities of LOCATIONS
PriceSavings ==
    (-MaxNear .. MaxNear) \cup {k * 10000 : k \in 1 .. MaxWeight}
    \cup {-47, -1423, 187, 93442, 1022730}

InitPrice ==
    /\ price_args \in [total_savings : PriceSavings, currency : PriceCurrencies]
    /\ price = <<>>
    /\ shipment = <<>>
    /\ route = <<>>
    /\ kpi = <<>>
    /\ co2_args = <<>>
    /\ co2_calls = <<>>
    /\ dist_args = <<>>
    /\ dist = <<>>
    /\ AppIdle

Convert ==
    /\ price = <<>>
    /\ price' = << [total_savings |-> price_args.total_savings,
                    currency |-> price_args.currency,
                    ret |-> ConvertSavings(price_args.total_savings,
                                           price_args.currency)] >>
    /\ UNCHANGED <<shipment, route, kpi, co2_args, co2_calls, dist_args, dist,
                   price_args, appVars>>

NextPrice == Convert

SpecPrice == InitPrice /\ [][NextPrice]_vars

C13_FallbackTold ==
    dist # <<>> =>
        LET fallback == calculate_distance("Atlantis", "El Dorado",
                                           "Atlantis", "El Dorado")
            c == dist[1]
        IN  IF Resolves(c.country1, c.city1) /\ Resolves(c.country2, c.city2)
            THEN c.ret # fallback
            ELSE c.ret = fallback

\* a call between two different resolved cities, which returned their distance
C13_Witness ==
    /\ dist # <<>>
    /\ Resolves(dist[1].country1, dist[1].city1)
    /\ Resolves(dist[1].country2, dist[1].city2)
    /\ dist[1].country1 # dist[1].country2
    /\ dist[1].ret = 34356

\* C15: for distance > 0 and weight > 0 the strategy returned depends only on
\* the scope and the band: intercontinental long Ship 90%/Train 10%, medium
\* Ship 70%/Train 30%, short Train 80%/Truck 20%; domestic below 1000 km
\* Train 100%, from 1000 km on Train 70%/Truck 30%.
C15_WinnerByBand ==
    (route # <<>> /\ route[1].distance_km > 0 /\ route[1].weight_tons > 0) =>
        LET r == route[1]
            d == r.distance_km
            o == r.ret.best_option
        IN  IF r.country1 # r.country2
            THEN /\ d >= 500000 => o = <<"Ship", 9, "Train", 1>>
                 /\ (d >= 100000 /\ d < 500000) => o = <<"Ship", 7, "Train", 3>>
                 /\ d < 100000 => o = <<"Train", 8, "Truck", 2>>
            ELSE /\ d < 100000 => o = <<"Train", 10, None, 0>>
                 /\ d >= 100000 => o = <<"Train", 7, "Truck", 3>>

\* a domestic call over the smallest positive distance with the smallest
\* positive weight, won by Train alone, the third candidate
C15_Witness ==
    /\ route # <<>>
    /\ route[1].country1 = route[1].country2
    /\ route[1].distance_km = 1
    /\ route[1].weight_tons = 1
    /\ route[1].ret.best_option = <<"Train", 10, None, 0>>

(***************************************************************************)
(* The database, emissions.db.                                             *)
(***************************************************************************)
\* the supplier_name column of sample_suppliers, lines 25-50
SAMPLE_SUPPLIERS ==
    << "UK Steel Co", "London Tech Supplies", "British Textiles Ltd",
       "French Steelworks", "Paris Electronics Hub", "ChemFrance",
       "American Steel Corp", "NY Tech Innovate", "US Textile Giants",
       "China Steel Group", "Shanghai Electronics", "EastChem Co",
       "Nippon Steel", "Tokyo Tech Solutions", "Japan Textiles",
       "Aussie Steelworks", "Sydney Chem Supplies", "Aus Textiles" >>

\* INSERT OR IGNORE: the row is dropped when its primary key, id, is taken
InsertOrIgnore(table, row) ==
    IF \E r \in table : r.id = row.id THEN table ELSE table \cup {row}

\* executemany of line 51 from sample k on
RECURSIVE InsertSamples(_, _, _)
InsertSamples(table, rows, k) ==
    IF k > Len(rows) THEN table
    ELSE InsertSamples(InsertOrIgnore(table, rows[k]), rows, k + 1)

\* init_db on the suppliers table; each str(uuid.uuid4()) of lines 27-49 is a
\* fresh id, here the least numbers no row of the table has
init_db(table) ==
    LET taken == Cardinality(table)
        sample_suppliers ==
            [k \in DOMAIN SAMPLE_SUPPLIERS |->
                [id |-> taken + k, supplier_name |-> SAMPLE_SUPPLIERS[k]]]
    IN  InsertSamples(table, sample_suppliers, 1)

\* save_emission with the measures stored in each other's column
save_emission_Swapped(table, source, destination, transport_mode, distance_km, co2_kg, weight_tons) ==
    Append(table, [source |-> source, destination |-> destination,
                   transport_mode |-> transport_mode,
                   distance_km |-> co2_kg, co2_kg |-> distance_km,
                   weight_tons |-> weight_tons])

\* save_emission on the emissions table (the id and the timestamp of a row
\* are left out)
save_emission(table, source, destination, transport_mode, distance_km, co2_kg, weight_tons) ==
    Append(table, [source |-> source, destination |-> destination,
                   transport_mode |-> transport_mode,
                   distance_km |-> distance_km, co2_kg |-> co2_kg,
                   weight_tons |-> weight_tons])

(***************************************************************************)
(* The pages of main.  A place is stored as the text "city, country",      *)
(* here the pair <<city, country>>: no name of LOCATIONS holds ", ", so    *)
(* split(', ') gives back the city at [0] and the country at [1].          *)
(***************************************************************************)
Place(city, country) == <<city, country>>

SplitCity(place) == place[1]

SplitCountry(place) == place[2]

Pages == {"Calculate Emissions", "Route Visualizer", "Supplier Lookup", "Reports"}

\* the countries picked in the session, the first three of LOCATIONS
UiCountries == {"United Kingdom", "France", "USA"}

\* the weights typed in the session: the least allowed and the initial one
UiWeights == {1, 10}

\* the currencies of the selectbox of line 598
Currencies == {"EUR", "USD", "AUD", "SAR"}

\* lines 394-407 and 538-552 for one row: the call of optimize_route and
\* the savings
RowAnalysis(row) ==
    LET source_country == SplitCountry(row.source)
        source_city == SplitCity(row.source)
        dest_country == SplitCountry(row.destination)
        dest_city == SplitCity(row.destination)
        call == RouteCall(source_country, source_city, dest_country, dest_city,
                          row.distance_km, row.weight_tons)
    IN  [call |-> call, savings |-> row.co2_kg - call.ret.min_co2]

\* the loop of lines 537-552 from row i on: total_savings
RECURSIVE TotalSavings(_, _, _)
TotalSavings(rows, i, total_savings) ==
    IF i > Len(rows) THEN total_savings
    ELSE TotalSavings(rows, i + 1, total_savings + RowAnalysis(rows[i]).savings)

\* the Calculate Emissions page without a click, lines 260-283
CalculatePage(source_country, dest_country) ==
    [page |-> "Calculate Emissions", clicked |-> FALSE,
     distance_km |-> calculate_distance(source_country, CityOf(source_country),
                                        dest_country, CityOf(dest_country))]

\* the Route Visualizer page with route route_idx selected, lines 320-453
RoutePage(rows, route_idx) ==
    IF rows = <<>>
    THEN [page |-> "Route Visualizer", empty |-> TRUE]
    ELSE [page |-> "Route Visualizer", empty |-> FALSE,
          route_idx |-> route_idx,
          calls |-> << RowAnalysis(rows[route_idx]).call >>,
          savings |-> RowAnalysis(rows[route_idx]).savings]

\* the Supplier Lookup page without a filter, lines 455-524
SupplierPage(table) ==
    [page |-> "Supplier Lookup", total_suppliers |-> Cardinality(table)]

\* the Reports page with a currency selected, lines 526-643
ReportsPage(rows, currency) ==
    IF rows = <<>>
    THEN [page |-> "Reports", empty |-> TRUE]
    ELSE LET total_savings == TotalSavings(rows, 1, 0)
             converted == ConvertSavings(total_savings, currency)
         IN  [page |-> "Reports", empty |-> FALSE,
              calls |-> [i \in DOMAIN rows |-> RowAnalysis(rows[i]).call],
              total_savings |-> total_savings,
              currency |-> currency,
              carbon_price_per_kg |-> converted.carbon_price_per_kg,
              total_cost_savings |-> converted.total_cost_savings]

\* a page as first shown: the first route, the first currency
FirstView(page, source_country, dest_country, rows, table) ==
    CASE page = "Calculate Emissions" -> CalculatePage(source_country, dest_country)
      [] page = "Route Visualizer" -> RoutePage(rows, 1)
      [] page = "Supplier Lookup" -> SupplierPage(table)
      [] page = "Reports" -> ReportsPage(rows, "EUR")

\* the number of runs of main so far: each adds the rows of init_db
Runs == Cardinality(suppliers) \div Len(SAMPLE_SUPPLIERS)

\* the first run of main in a session, on a new database
Init ==
    /\ session = [page |-> "Calculate Emissions",
                  source_country |-> "United Kingdom",
                  dest_country |-> "United Kingdom",
                  weight_tons |-> 10]
    /\ emissions = <<>>
    /\ suppliers = init_db({})
    /\ view = CalculatePage("United Kingdom", "United Kingdom")
    /\ shipment = <<>>
    /\ route = <<>>
    /\ kpi = <<>>
    /\ co2_args = <<>>
    /\ co2_calls = <<>>
    /\ dist_args = <<>>
    /\ dist = <<>>
    /\ price_args = <<>>
    /\ price = <<>>

fnVars == <<shipment, route, kpi, co2_args, co2_calls, dist_args, dist,
            price_args, price>>

\* a run of main caused by a navigation button, lines 239-253
ClickNav(page) ==
    /\ Runs < MaxRuns
    /\ page # session.page
    /\ suppliers' = init_db(suppliers)
    /\ session' = [session EXCEPT !.page = page]
    /\ view' = FirstView(page, session.source_country, session.dest_country,
                         emissions, suppliers')
    /\ UNCHANGED <<emissions, fnVars>>

\* a run of main caused by a widget that changes nothing kept here: the
\* mode, the weight, a filter, the button of the page shown
Rerun ==
    /\ Runs < MaxRuns
    /\ suppliers' = init_db(suppliers)
    /\ view' = CASE session.page = "Calculate Emissions" ->
                        CalculatePage(session.source_country, session.dest_country)
                 [] session.page = "Supplier Lookup" -> SupplierPage(suppliers')
                 [] OTHER -> view
    /\ UNCHANGED <<session, emissions, fnVars>>

\* the source country picked, lines 266-270
SelectSource(source_country) ==
    /\ Runs < MaxRuns
    /\ session.page = "Calculate Emissions"
    /\ source_country # session.source_country
    /\ suppliers' = init_db(suppliers)
    /\ session' = [session EXCEPT !.source_country = source_country]
    /\ view' = CalculatePage(source_country, session.dest_country)
    /\ UNCHANGED <<emissions, fnVars>>

\* the destination country picked, lines 273-277
SelectDest(dest_country) ==
    /\ Runs < MaxRuns
    /\ session.page = "Calculate Emissions"
    /\ dest_country # session.dest_country
    /\ suppliers' = init_db(suppliers)
    /\ session' = [session EXCEPT !.dest_country = dest_country]
    /\ view' = CalculatePage(session.source_country, dest_country)
    /\ UNCHANGED <<emissions, fnVars>>

\* the Calculate button clicked with the mode and the weight of the widgets,
\* lines 280-295
Calculate(transport_mode, weight_tons) ==
    /\ Runs < MaxRuns
    /\ session.page = "Calculate Emissions"
    /\ suppliers' = init_db(suppliers)
    /\ LET source_country == session.source_country
           source_city == CityOf(source_country)
           dest_country == session.dest_country
           dest_city == CityOf(dest_country)
           distance_km == calculate_distance(source_country, source_city,
                                             dest_country, dest_city)
           source == Place(source_city, source_country)
           destination == Place(dest_city, dest_country)
           co2_kg == calculate_co2(source_country, source_city,
                                   dest_country, dest_city,
                                   transport_mode, distance_km, weight_tons)
       IN  /\ emissions' = save_emission(emissions, source, destination,
                                         transport_mode, distance_km, co2_kg,
                                         weight_tons)
           /\ session' = [session EXCEPT !.weight_tons = weight_tons]
           /\ view' = [page |-> "Calculate Emissions", clicked |-> TRUE,
                       distance_km |-> distance_km, co2_kg |-> co2_kg]
    /\ UNCHANGED fnVars

\* SelectRoute storing the route it analysed as a new row
SelectRoute_Saving(route_idx) ==
    /\ Runs < MaxRuns
    /\ session.page = "Route Visualizer"
    /\ route_idx \in DOMAIN emissions
    /\ suppliers' = init_db(suppliers)
    /\ view' = RoutePage(emissions, route_idx)
    /\ emissions' = Append(emissions, emissions[route_idx])
    /\ UNCHANGED <<session, fnVars>>

\* a route picked in the Route Visualizer, lines 390-407
SelectRoute(route_idx) ==
    /\ Runs < MaxRuns
    /\ session.page = "Route Visualizer"
    /\ route_idx \in DOMAIN emissions
    /\ suppliers' = init_db(suppliers)
    /\ view' = RoutePage(emissions, route_idx)
    /\ UNCHANGED <<session, emissions, fnVars>>

\* a currency picked in Reports, lines 598-600
SelectCurrency(currency) ==
    /\ Runs < MaxRuns
    /\ session.page = "Reports"
    /\ emissions # <<>>
    /\ suppliers' = init_db(suppliers)
    /\ view' = ReportsPage(emissions, currency)
    /\ UNCHANGED <<session, emissions, fnVars>>

Next ==
    \/ \E page \in Pages : ClickNav(page)
    \/ Rerun
    \/ \E source_country \in UiCountries : SelectSource(source_country)
    \/ \E dest_country \in UiCountries : SelectDest(dest_country)
    \/ \E transport_mode \in Modes, weight_tons \in UiWeights :
            Calculate(transport_mode, weight_tons)
    \/ \E route_idx \in 1 .. MaxRuns : SelectRoute(route_idx)
    \/ \E currency \in Currencies : SelectCurrency(currency)

Spec == Init /\ [][Next]_vars

(***************************************************************************)
(* C12.  The saving in money.                                              *)
(***************************************************************************)
\* the exchange rates the claim names, in hundredths
ClaimedRate(c) ==
    CASE c = "EUR" -> 100 [] c = "USD" -> 106 [] c = "AUD" -> 162 [] c = "SAR" -> 398

\* x * k for an amount x of two limbs and a small whole k
Scaled(x, k) ==
    [hi |-> x.hi * k + ((x.lo * k) \div Co2Unit), lo |-> (x.lo * k) % Co2Unit]

\* (s / 1000) x 65.89 x exchangeRate(c) for s in 0.01 kg, in the limbs of
\* total_cost_savings
ClaimedAmount(s, c) ==
    Scaled(Scaled([hi |-> s \div Co2Unit, lo |-> s % Co2Unit], 6589), ClaimedRate(c))

\* the sum over the rows up to n of stored CO2 minus optimized CO2
RECURSIVE ClaimedSum(_, _)
ClaimedSum(rows, n) ==
    IF n = 0 THEN 0
    ELSE LET row == rows[n]
             optimized == optimize_route(row.source[2], row.source[1],
                                         row.destination[2], row.destination[1],
                                         row.distance_km, row.weight_tons)
         IN  ClaimedSum(rows, n - 1) + (row.co2_kg - optimized.min_co2)

\* C12: whenever the Reports page shows a total cost saving, it is the sum
\* over all stored shipments of (stored CO2 minus optimized CO2), converted
\* once as (s / 1000) x 65.89 x rate with the rates EUR 1.0, USD 1.06,
\* AUD 1.62 and SAR 3.98.
C12_ReportedSavingConverted ==
    (view.page = "Reports" /\ ~view.empty) =>
        /\ view.currency \in Currencies
        /\ view.total_savings = ClaimedSum(emissions, Len(emissions))
        /\ view.total_cost_savings = ClaimedAmount(view.total_savings, view.currency)

\* a report in USD of a saving that is not zero
C12_Witness ==
    /\ view.page = "Reports"
    /\ ~view.empty
    /\ view.currency = "USD"
    /\ view.total_savings # 0
    /\ view.total_cost_savings # [hi |-> 0, lo |-> 0]

(***************************************************************************)
(* C14.  Who writes the emissions table.                                   *)
(***************************************************************************)
\* C14: a step changes the emissions table only when it is a click of
\* Calculate on the Calculate Emissions page, and then it adds exactly one
\* row after the rows there were; every other step, the Route Visualizer
\* and the Reports pages running the optimizer among them, leaves the table
\* as it was.
C14_RowsOnlyByCalculate ==
    [][ \/ emissions' = emissions
        \/ /\ session.page = "Calculate Emissions"
           /\ view'.page = "Calculate Emissions"
           /\ view'.clicked
           /\ Len(emissions') = Len(emissions) + 1
           /\ SubSeq(emissions', 1, Len(emissions)) = emissions ]_vars

\* Reports has run the optimizer over the one stored row and the table
\* still holds that one row
C14_Witness ==
    /\ Len(emissions) = 1
    /\ view.page = "Reports"
    /\ ~view.empty
    /\ Len(view.calls) = 1
    /\ view.calls[1].ret.best_option # <<>>

(***************************************************************************)
(* C16.  The rows of the emissions table and the calls they lead to.       *)
(***************************************************************************)
\* the calls of optimize_route the page shown has made
CallsShown ==
    IF view.page \in {"Route Visualizer", "Reports"} /\ ~view.empty
    THEN {view.calls[i] : i \in DOMAIN view.calls}
    ELSE {}

\* C16: every row of the emissions table has a weight of at least 0.1 t, a
\* mode among Truck, Train, Ship and Plane, endpoints that resolve in
\* LOCATIONS, the distance calculate_distance gives for its endpoints (not
\* negative) and the CO2 calculate_co2 gives for its distance, weight and
\* mode; and every call of optimize_route by the Route Visualizer or by
\* Reports has a weight above 0, a distance of at least 0 and returns a best
\* strategy that is not empty.
C16_RowsWellFormed ==
    /\ \A i \in DOMAIN emissions :
          LET row == emissions[i]
          IN  /\ row.weight_tons >= 1
              /\ row.transport_mode \in {"Truck", "Train", "Ship", "Plane"}
              /\ Resolves(row.source[2], row.source[1])
              /\ Resolves(row.destination[2], row.destination[1])
              /\ row.distance_km =
                    calculate_distance(row.source[2], row.source[1],
                                       row.destination[2], row.destination[1])
              /\ row.distance_km >= 0
              /\ row.co2_kg =
                    calculate_co2(row.source[2], row.source[1],
                                  row.destination[2], row.destination[1],
                                  row.transport_mode, row.distance_km,
                                  row.weight_tons)
    /\ \A call \in CallsShown :
          /\ call.weight_tons > 0
          /\ call.distance_km >= 0
          /\ call.ret.best_option # <<>>
          /\ call.ret.combinations # <<>>

\* Reports has analysed two stored rows, one of the least weight, one
\* between different cities
C16_Witness ==
    /\ Len(emissions) = 2
    /\ \E i \in DOMAIN emissions : emissions[i].weight_tons = 1
    /\ \E i \in DOMAIN emissions : emissions[i].distance_km > 0
    /\ view.page = "Reports"
    /\ ~view.empty
    /\ Len(view.calls) = 2

(***************************************************************************)
(* C17.  init_db run again.                                                *)
(***************************************************************************)
\* C17: however often init_db has run, the suppliers table holds the 18
\* sample suppliers of the first run, none of them twice (and the rows of
\* the emissions table are never touched by it: C14).
C17_InitDbIdempotent ==
    /\ Cardinality(suppliers) = Len(SAMPLE_SUPPLIERS)
    /\ \A r1, r2 \in suppliers :
          r1.supplier_name = r2.supplier_name => r1 = r2
    /\ {r.supplier_name : r \in suppliers} =
          {SAMPLE_SUPPLIERS[k] : k \in DOMAIN SAMPLE_SUPPLIERS}

====
